---- MODULE Spec2Model ----
(***************************************************************************)
(* Model of the meeting-minutes assistant (src/App.tsx and the Gemini      *)
(* service client, src/unnamed/part_001).                                  *)
(*                                                                         *)
(* The React component is single threaded: every handler runs to its next  *)
(* await (or to its end) without interruption, and React re-renders        *)
(* before the next user event.  Each action below is therefore one such    *)
(* segment of a handler or callback.  The buttons a user can press are     *)
(* those renderContent shows for the current status.                       *)
(*                                                                         *)
(* Modelled: the session fields, the audio refs and the objects they point *)
(* to (streams, audio contexts, recorders, intervals), every pending await *)
(* and the clipboard write of handleCopyFormatted, and what the Done view  *)
(* shows of the document, the HTML and the Notion blocks made of it, and   *)
(* the request of handleSendToNotion with its two awaits.  Not modelled:   *)
(* the "copied" marks and their timeouts, and the loading message.         *)
(*                                                                         *)
(* Spec is the program as its interface lets it run, with one press of the *)
(* start button.  SpecOverlap adds further presses of it, SpecRequests the *)
(* two capture handlers invoked where no control is rendered for them, and *)
(* SpecDocuments runs the document functions over all short documents.     *)
(* SpecLive is Spec with the two service calls returning eventually.       *)
(* SpecEncodings runs the title field, markdownToHtml and                  *)
(* parseMarkdownToNotionBlocks over documents of a few lines, and SpecSink *)
(* runs handleSendToNotion to the end of its request; its button is        *)
(* commented out in renderContent (App.tsx 566-596), so the handler is     *)
(* reachable only in these two specifications.                             *)
(*                                                                         *)
(* Strings are TLA+ strings; TLC evaluates Len, SubSeq and \o on them.     *)
(* The Spanish texts are written without their accents (TLC keeps strings  *)
(* bytewise); no code path looks at an accented letter except the includes *)
(* test of transcribeAudio, whose two sides are written alike.             *)
(* A nullable value is <<>> (null / undefined) or <<v>>.                   *)
(***************************************************************************)
EXTENDS Integers, Sequences, FiniteSets, Bags, TLC

(* ------------------------------ bounds --------------------------------- *)
\* number of handleStartRecording invocations in a run
MaxStarts == 1
\* largest value of the elapsed-seconds counter that is explored
MaxTime == 1
\* number of formatted clipboard writes that may be pending at once
MaxWrites == 1
\* longest summary and longest body of the documents of SpecDocuments
MaxPartLen == 3
\* invocations of handleStartRecording after the first MaxStarts
MaxRequests == 1
\* lines of a body handed to the two encodings
MaxLines == 3

(* ------------------------------ AppStatus ------------------------------ *)
Idle == "Idle"
ReadyToGenerate == "ReadyToGenerate"
Recording == "Recording"
Transcribing == "Transcribing"
Generating == "Generating"
Done == "Done"
Error == "Error"
AppStatus == {Idle, ReadyToGenerate, Recording, Transcribing, Generating, Done, Error}

None == <<>>
Some(v) == <<v>>

(* --------------------------- string helpers ---------------------------- *)
\* characters String.prototype.trim removes (those the inputs here can hold)
WhiteSpace == {" ", "\t", "\n", "\r"}

CharAt(s, i) == SubSeq(s, i, i)

\* String.prototype.startsWith
StartsWith(s, p) == Len(s) >= Len(p) /\ SubSeq(s, 1, Len(p)) = p

\* String.prototype.includes
Includes(s, p) == \E i \in 1..(Len(s) - Len(p) + 1) : SubSeq(s, i, i + Len(p) - 1) = p

\* String.prototype.trim
RECURSIVE TrimStart(_, _)
TrimStart(s, i) ==
    IF i > Len(s) \/ CharAt(s, i) \notin WhiteSpace THEN i ELSE TrimStart(s, i + 1)

RECURSIVE TrimEnd(_, _)
TrimEnd(s, i) ==
    IF i < 1 \/ CharAt(s, i) \notin WhiteSpace THEN i ELSE TrimEnd(s, i - 1)

Trim(s) ==
    LET Between(lo, hi) == IF lo > hi THEN "" ELSE SubSeq(s, lo, hi)
    IN  Between(TrimStart(s, 1), TrimEnd(s, Len(s)))

\* index of the first occurrence of p in s at or after position from, 0 if none
\* (the first occurrence within lo..hi, searched by halves)
RECURSIVE IndexWithin(_, _, _, _)
IndexWithin(s, p, lo, hi) ==
    IF lo > hi THEN 0
    ELSE IF lo = hi THEN (IF SubSeq(s, lo, lo + Len(p) - 1) = p THEN lo ELSE 0)
    ELSE LET Left(k) == IF k # 0 THEN k
                        ELSE IndexWithin(s, p, (lo + hi) \div 2 + 1, hi)
         IN  Left(IndexWithin(s, p, lo, (lo + hi) \div 2))

IndexFrom(s, p, from) == IndexWithin(s, p, from, Len(s) - Len(p) + 1)

\* String.prototype.split with a non-empty string separator
RECURSIVE SplitFrom(_, _, _)
SplitFrom(s, sep, from) ==
    LET Cut(k) == IF k = 0 THEN <<SubSeq(s, from, Len(s))>>
                  ELSE <<SubSeq(s, from, k - 1)>> \o SplitFrom(s, sep, k + Len(sep))
    IN  Cut(IndexFrom(s, sep, from))

Split(s, sep) == SplitFrom(s, sep, 1)

\* Array.prototype.join
RECURSIVE Join(_, _)
Join(parts, sep) ==
    IF Len(parts) = 0 THEN ""
    ELSE IF Len(parts) = 1 THEN parts[1]
    ELSE parts[1] \o sep \o Join(Tail(parts), sep)

\* minutes.split('---').slice(1).join('---').trim()
MarkdownContent(m) == Trim(Join(Tail(Split(m, "---")), "---"))

\* minutes.split('---')[0].trim()
SummaryText(m) == Trim(Split(m, "---")[1])

(* --------------------------- the title field --------------------------- *)
\* projectNameRegex:
\*   /### 1\. Nombre del proyecto o asunto\s*\n\s*\*?\s*(.*?)\s*\n/s
\* matched as a backtracking matcher does: each \s* takes the longest run
\* first and gives characters back, \*? takes the asterisk first, (.*?) takes
\* the shortest text first (with flag s it crosses lines).
ProjectNameHeader == "### 1. Nombre del proyecto o asunto"

\* the index after the run of white space that starts at i
RECURSIVE SkipSpace(_, _)
SkipSpace(s, i) ==
    IF i > Len(s) \/ CharAt(s, i) \notin WhiteSpace THEN i ELSE SkipSpace(s, i + 1)

\* \s*\n matches at i: a line break within the white space that starts at i
BreakAfter(s, i) == \E e \in i..(SkipSpace(s, i) - 1) : CharAt(s, e) = "\n"

\* (.*?)\s*\n from c: the first d >= c at which \s*\n matches, 0 when none
\* (a line break ends the first white space that has one: d is the start
\* of the white space before the first line break at or after c)
RECURSIVE SpaceStart(_, _, _)
SpaceStart(s, c, d) ==
    IF d > c /\ CharAt(s, d - 1) \in WhiteSpace THEN SpaceStart(s, c, d - 1) ELSE d

CaptureEnd(s, c) ==
    LET Before(break) == IF break = 0 THEN 0 ELSE SpaceStart(s, c, break)
    IN  Before(IndexFrom(s, "\n", c))

\* \s*(.*?)\s*\n from b, the white space ending at c or before: the capture
RECURSIVE MatchCapture(_, _, _)
MatchCapture(s, b, c) ==
    LET Captured(d) ==
            IF d # 0 THEN Some(SubSeq(s, c, d - 1))
            ELSE IF c = b THEN None
            ELSE MatchCapture(s, b, c - 1)
    IN  Captured(CaptureEnd(s, c))

\* \s*\*?\s*(.*?)\s*\n from a, the first white space ending at w or before
RECURSIVE MatchAsterisk(_, _, _)
MatchAsterisk(s, a, w) ==
    LET Without(taken) ==
            IF taken # None THEN taken
            ELSE LET Shorter(plain) ==
                         IF plain # None THEN plain
                         ELSE IF w = a THEN None
                         ELSE MatchAsterisk(s, a, w - 1)
                 IN  Shorter(MatchCapture(s, w, SkipSpace(s, w)))
    IN  Without(IF w <= Len(s) /\ CharAt(s, w) = "*"
                THEN MatchCapture(s, w + 1, SkipSpace(s, w + 1))
                ELSE None)

\* \s*\n... from p, the first white space ending at a or before
RECURSIVE MatchBreak(_, _, _)
MatchBreak(s, p, a) ==
    LET Earlier(found) ==
            IF found # None THEN found
            ELSE IF a = p THEN None
            ELSE MatchBreak(s, p, a - 1)
    IN  Earlier(IF a <= Len(s) /\ CharAt(s, a) = "\n"
                THEN MatchAsterisk(s, a + 1, SkipSpace(s, a + 1))
                ELSE None)

\* rawMarkdown.match(projectNameRegex): the capture of the leftmost match
RECURSIVE MatchProjectName(_, _)
MatchProjectName(s, from) ==
    LET At(h) ==
            IF h = 0 THEN None
            ELSE LET Here(found) ==
                         IF found # None THEN found ELSE MatchProjectName(s, h + 1)
                     p == h + Len(ProjectNameHeader)
                 IN  Here(MatchBreak(s, p, SkipSpace(s, p)))
    IN  At(IndexFrom(s, ProjectNameHeader, from))

\* projectNameMatch ? projectNameMatch[1].trim() : fallback
ProjectName(rawMarkdown, fallback) ==
    LET Named(found) == IF found = None THEN fallback ELSE Trim(found[1])
    IN  Named(MatchProjectName(rawMarkdown, 1))

\* the fallback of renderContent and the one of handleSendToNotion
NoSeEspecifica == "No se especifica"
MinutaDeReunion == "Minuta de Reunion"

(* ------------------------- the two encodings --------------------------- *)
\* s.replace(p, r) with a string pattern: the first occurrence only
ReplaceFirst(s, p, r) ==
    LET At(k) == IF k = 0 THEN s
                 ELSE SubSeq(s, 1, k - 1) \o r \o SubSeq(s, k + Len(p), Len(s))
    IN  At(IndexFrom(s, p, 1))

\* line.replace(/\*\*(.*?)\*\*/g, '<strong>$1</strong>') from index from on:
\* each ** pairs with the next ** after it; a last ** without a partner stays
RECURSIVE ReplaceBold(_, _)
ReplaceBold(s, from) ==
    LET Pair(open, close) ==
            IF open = 0 \/ close = 0 THEN SubSeq(s, from, Len(s))
            ELSE SubSeq(s, from, open - 1) \o "<strong>"
                 \o SubSeq(s, open + 2, close - 1) \o "</strong>"
                 \o ReplaceBold(s, close + 2)
        Open(open) == Pair(open, IF open = 0 THEN 0 ELSE IndexFrom(s, "**", open + 2))
    IN  Open(IndexFrom(s, "**", from))

\* the list markers of markdownToHtml: /^\s*(\*|-|\[ \])\s/
ListMarkers == <<"*", "-", "[ ]">>

\* the length of the marker line begins with when white space follows it, else 0
MarkerLen(line) ==
    LET Marks(k) == StartsWith(line, ListMarkers[k]) /\ Len(line) > Len(ListMarkers[k])
                    /\ CharAt(line, Len(ListMarkers[k]) + 1) \in WhiteSpace
    IN  IF \E k \in 1..3 : Marks(k)
        THEN Len(ListMarkers[CHOOSE k \in 1..3 : Marks(k)])
        ELSE 0

\* closeList of markdownToHtml
closeList(st) ==
    IF st.inList THEN [html |-> st.html \o "</ul>\n", inList |-> FALSE] ELSE st

\* markdownToHtml with its list kept open across a blank line
htmlLineKeepsList(st, line) ==
    LET trimmed == Trim(line)
        processedLine == ReplaceBold(trimmed, 1)
        marker == MarkerLen(processedLine)
    IN  IF trimmed = "" THEN st
        ELSE IF StartsWith(processedLine, "### ")
        THEN [ html |-> closeList(st).html \o "<h3>"
                        \o ReplaceFirst(processedLine, "### ", "") \o "</h3>\n",
               inList |-> FALSE ]
        ELSE IF marker > 0
        THEN [ html |-> st.html \o (IF st.inList THEN "" ELSE "<ul>\n") \o "<li>"
                        \o SubSeq(processedLine, SkipSpace(processedLine, marker + 1),
                                  Len(processedLine))
                        \o "</li>\n",
               inList |-> TRUE ]
        ELSE [ html |-> closeList(st).html \o "<p>" \o processedLine \o "</p>\n",
               inList |-> FALSE ]

\* one turn of the loop of markdownToHtml: html and inList after the line
htmlLine(st, line) ==
    LET trimmed == Trim(line)
        processedLine == ReplaceBold(trimmed, 1)
        marker == MarkerLen(processedLine)
    IN  IF trimmed = "" THEN closeList(st)
        ELSE IF StartsWith(processedLine, "### ")
        THEN [ html |-> closeList(st).html \o "<h3>"
                        \o ReplaceFirst(processedLine, "### ", "") \o "</h3>\n",
               inList |-> FALSE ]
        ELSE IF marker > 0
        THEN [ html |-> st.html \o (IF st.inList THEN "" ELSE "<ul>\n") \o "<li>"
                        \o SubSeq(processedLine, SkipSpace(processedLine, marker + 1),
                                  Len(processedLine))
                        \o "</li>\n",
               inList |-> TRUE ]
        ELSE [ html |-> closeList(st).html \o "<p>" \o processedLine \o "</p>\n",
               inList |-> FALSE ]

\* html and inList after the first k lines
RECURSIVE htmlLoop(_, _)
htmlLoop(lines, k) ==
    IF k = 0 THEN [html |-> "", inList |-> FALSE]
    ELSE htmlLine(htmlLoop(lines, k - 1), lines[k])

\* markdownToHtml
markdownToHtml(markdownText) ==
    LET Whole(lines) == closeList(htmlLoop(lines, Len(lines))).html
    IN  Whole(Split(markdownText, "\n"))

\* createTextWithBold: text.split('**'), the empty parts dropped, the parts
\* of odd index (counted from 0) bold
createTextWithBold(text) ==
    LET parts == Split(text, "**")
        RECURSIVE Runs(_)
        Runs(k) ==
            IF k > Len(parts) THEN <<>>
            ELSE (IF parts[k] = "" THEN <<>>
                  ELSE <<[content |-> parts[k], bold |-> (k - 1) % 2 = 1]>>)
                 \o Runs(k + 1)
    IN  Runs(1)

\* markdown.split(/(?=###\s)/): a cut before every ### that white space
\* follows, except at the start of the text
RECURSIVE SectionStart(_, _)
SectionStart(s, from) ==
    LET At(q) == IF q = 0 \/ q > Len(s) - 3 THEN 0
                 ELSE IF CharAt(s, q + 3) \in WhiteSpace THEN q
                 ELSE SectionStart(s, q + 1)
    IN  At(IndexFrom(s, "###", from))

RECURSIVE SplitSections(_, _)
SplitSections(s, start) ==
    LET Cut(q) == IF q = 0 THEN <<SubSeq(s, start, Len(s))>>
                  ELSE <<SubSeq(s, start, q - 1)>> \o SplitSections(s, q)
    IN  Cut(SectionStart(s, start + 1))

\* array.filter(x => x.trim() !== '')
RECURSIVE NonBlank(_)
NonBlank(xs) ==
    IF xs = <<>> THEN <<>>
    ELSE (IF Trim(Head(xs)) = "" THEN <<>> ELSE <<Head(xs)>>) \o NonBlank(Tail(xs))

\* the bullet of a paragraph block (U+2022 in the source) and its space
BulletMarker == "o "

TasksTitle == "Compromisos y tareas"

\* line.replace(/\[ \]\s*/, ''): the first [ ] of the line and the white
\* space after it
StripCheckbox(line) ==
    LET At(k) == IF k = 0 THEN line
                 ELSE SubSeq(line, 1, k - 1)
                      \o SubSeq(line, SkipSpace(line, k + 3), Len(line))
    IN  At(IndexFrom(line, "[ ]", 1))

\* line.replace(/^\s*[\*\-]\s*/, ''): leading white space, one * or -, and
\* the white space after it
StripBullet(line) ==
    LET At(k) == IF k <= Len(line) /\ CharAt(line, k) \in {"*", "-"}
                 THEN SubSeq(line, SkipSpace(line, k + 1), Len(line))
                 ELSE line
    IN  At(SkipSpace(line, 1))

\* the content lines of every section made tasks
RECURSIVE ContentBlocksAllTasks(_, _)
ContentBlocksAllTasks(tasks, contentLines) ==
    IF contentLines = <<>> THEN <<>>
    ELSE LET Block(text) ==
                 IF text = "" THEN <<>>
                 ELSE <<[ type |-> "to_do", rich_text |-> createTextWithBold(text),
                          checked |-> FALSE ]>>
         IN  Block(Trim(StripCheckbox(Head(contentLines))))
             \o ContentBlocksAllTasks(tasks, Tail(contentLines))

\* the blocks of the content lines of a section
RECURSIVE ContentBlocks(_, _)
ContentBlocks(tasks, contentLines) ==
    IF contentLines = <<>> THEN <<>>
    ELSE LET Block(text) ==
                 IF text = "" THEN <<>>
                 ELSE IF tasks
                 THEN <<[ type |-> "to_do", rich_text |-> createTextWithBold(text),
                          checked |-> FALSE ]>>
                 ELSE <<[ type |-> "paragraph",
                          rich_text |-> createTextWithBold(BulletMarker \o text) ]>>
         IN  Block(Trim(IF tasks THEN StripCheckbox(Head(contentLines))
                        ELSE StripBullet(Head(contentLines))))
             \o ContentBlocks(tasks, Tail(contentLines))

\* the blocks of one section: its first line is the heading whatever it is
SectionBlocks(section) ==
    LET Of(lines) ==
            IF lines = <<>> THEN <<>>
            ELSE LET Titled(title) ==
                         <<[ type |-> "heading_3", rich_text |-> createTextWithBold(title) ]>>
                         \o ContentBlocks(Includes(title, TasksTitle), Tail(lines))
                 IN  Titled(Trim(ReplaceFirst(lines[1], "### ", "")))
    IN  Of(NonBlank(Split(Trim(section), "\n")))

\* parseMarkdownToNotionBlocks
parseMarkdownToNotionBlocks(markdown) ==
    LET sections == NonBlank(SplitSections(markdown, 1))
        RECURSIVE All(_)
        All(k) == IF k > Len(sections) THEN <<>>
                  ELSE SectionBlocks(sections[k]) \o All(k + 1)
    IN  All(1)

(* ------------------------- user-facing messages ------------------------ *)
MsgEmptyInput == "La transcripcion no puede estar vacia."
MsgEmptyRecording == "La grabacion no contiene datos de audio. Por favor, intentelo de nuevo."
MsgStartGeneric == "Ocurrio un error al iniciar la grabacion."
MsgStartPermission == "Permiso denegado para capturar pantalla o microfono. Por favor, conceda los permisos necesarios e intentelo de nuevo."
MsgCopyFormatted == "No se pudo copiar con formato. Su navegador podria no ser compatible. Intente 'Copiar Markdown'."
MsgCopyHtml == "Ocurrio un error al generar el contenido con formato."
MsgEmptyTranscription == "La transcripcion resulto vacia. El audio puede no haber contenido voz clara."
MsgTranscribeUnknown == "Ocurrio un error desconocido al transcribir el audio."
MsgNotionEmpty == "No se pudo procesar la minuta para Notion."
MsgGenerateUnknown == "Ocurrio un error desconocido al generar la minuta."

(* ------------------------- the Gemini service -------------------------- *)
(* What one call to ai.models.generateContent can do: return a response    *)
(* whose .text is a string or undefined (kind "text"), throw an Error with *)
(* a message (kind "error"), or throw / reject with a value that is not an *)
(* Error, as blobToBase64 does with the FileReader's event (kind "other"). *)
TextOutcome(t) == [kind |-> "text", text |-> Some(t)]
UndefinedOutcome == [kind |-> "text", text |-> None]
ErrorOutcome(m) == [kind |-> "error", text |-> Some(m)]
OtherOutcome == [kind |-> "other", text |-> None]
NoOutcome == [kind |-> "none", text |-> None]

\* the call itself failed (as opposed to returning a response)
CallFailed(o) == o.kind \in {"error", "other"}

\* the response carries no usable text
EmptyText(o) == o.kind = "text" /\ (o.text = None \/ Trim(o.text[1]) = "")

\* transcribeAudio with the whitespace test left out (if (!transcription) only)
transcribeAudioNoTrim(o) ==
    IF o.kind = "text" /\ o.text # None /\ o.text[1] # "" THEN o.text[1]
    ELSE IF o.kind = "other" THEN MsgTranscribeUnknown
    ELSE LET message == IF o.kind = "text" THEN MsgEmptyTranscription ELSE o.text[1]
         IN  IF Includes(message, "La transcripcion resulto vacia")
             THEN "Error: " \o message
             ELSE "Error al transcribir el audio: " \o message

\* transcribeAudio: the string the returned promise resolves to
transcribeAudio(o) ==
    IF o.kind = "text" /\ ~EmptyText(o) THEN o.text[1]
    ELSE IF o.kind = "other" THEN MsgTranscribeUnknown
    ELSE LET message == IF o.kind = "text" THEN MsgEmptyTranscription ELSE o.text[1]
         IN  IF Includes(message, "La transcripcion resulto vacia")
             THEN "Error: " \o message
             ELSE "Error al transcribir el audio: " \o message

\* generateMinutesFromText: what the returned promise resolves to
\* (response.text, which may be undefined, or a message)
generateMinutesFromText(o) ==
    IF o.kind = "text" THEN o.text
    ELSE IF o.kind = "error" THEN Some("Error al contactar la API de Gemini: " \o o.text[1])
    ELSE Some(MsgGenerateUnknown)

(* ------------------------------ inputs --------------------------------- *)
\* texts the user types into the textarea
InputTexts == {" \n", "Acta del lunes"}

\* a generated document, and one whose summary happens to begin with "Error"
DocPlain == "Resumen breve\n---\n### 1. Nombre del proyecto o asunto\n* Acme\n"
DocErrorWord == "Errores de facturacion revisados\n---\n### 1. Nombre del proyecto o asunto\n* Cobros\n"

TranscribeOutcomes ==
    { TextOutcome("hola equipo"), TextOutcome(" \n"), UndefinedOutcome,
      ErrorOutcome("503"), OtherOutcome }

GenerateOutcomes ==
    { TextOutcome(DocPlain), TextOutcome(DocErrorWord), UndefinedOutcome,
      ErrorOutcome("503"), OtherOutcome }

\* the documents SpecDocuments lets the service return: a summary and a body
\* over a letter, the delimiter's character and a line break, joined by a
\* delimiter line, and the same texts with no delimiter line added
Alphabet == {"a", "-", "\n"}

RECURSIVE Strings(_)
Strings(n) ==
    IF n = 0 THEN {""}
    ELSE LET shorter == Strings(n - 1)
         IN  shorter \cup {s \o c : s \in shorter, c \in Alphabet}

Parts == Strings(MaxPartLen)

DelimiterLine == "\n---\n"

Document(S, B) == S \o DelimiterLine \o B

Documents == Parts \cup {Document(S, B) : S \in Parts, B \in Parts}

\* the lines of the bodies SpecEncodings lets the service return: the header
\* of section 1 as the prompt words it and with another title, the header of
\* the tasks section, a bullet, a plain line, a checkbox with and without
\* text, a blank line, and a line with three bold markers
BodyLines ==
    { ProjectNameHeader, "### 1. Title", "### 5. Compromisos y tareas",
      "* Acme", "Acme", "[ ] Buy milk", "[ ]", "", "a **b** c **d" }

RECURSIVE LineSeqs(_)
LineSeqs(n) ==
    IF n = 0 THEN {<<>>}
    ELSE LET shorter == LineSeqs(n - 1)
         IN  shorter \cup {Append(ls, l) : ls \in shorter, l \in BodyLines}

Bodies == {Join(ls, "\n") : ls \in LineSeqs(MaxLines) \ {<<>>}}

Minuta(body) == Document("Resumen breve", body)

Minutas == {Minuta(b) : b \in Bodies}

\* err.name of a rejected getDisplayMedia / getUserMedia
ErrorNames == {"NotAllowedError", "NotFoundError", "AbortError"}

\* the texts generateAndSetMinutes can store in minutes
GeneratedTexts ==
    LET outcomes == GenerateOutcomes
                    \cup {TextOutcome(d) : d \in Documents \cup Minutas}
    IN  {generateMinutesFromText(o)[1] :
            o \in {x \in outcomes : generateMinutesFromText(x) # None}}

\* the Done view with the body cut at the second delimiter: the text between
\* the first two delimiters only
renderContentSecondPart(st, m) ==
    LET Body(summary, rawMarkdown) ==
            Some([ summary |-> summary, rawMarkdown |-> rawMarkdown,
                   projectName |-> ProjectName(rawMarkdown, NoSeEspecifica) ])
        Shown(parts) ==
            Body(Trim(parts[1]), IF Len(parts) > 1 THEN Trim(parts[2]) ELSE "")
    IN  IF st # Done THEN None ELSE Shown(Split(m, "---"))

\* renderContent, case AppStatus.Done, as a function of the document:
\* const [summary, ...markdownParts] = minutes.split('---'), the summary
\* shown trimmed, rawMarkdown = markdownParts.join('---').trim(), and the
\* project name the regular expression finds in rawMarkdown
DoneView ==
    LET Body(summary, rawMarkdown) ==
            [ summary |-> summary, rawMarkdown |-> rawMarkdown,
              projectName |-> ProjectName(rawMarkdown, NoSeEspecifica) ]
        Shown(parts) == Body(Trim(parts[1]), Trim(Join(Tail(parts), "---")))
    IN  [m \in GeneratedTexts |-> Shown(Split(m, "---"))]

\* handleCopyFormatted: htmlContent = markdownToHtml(markdownContent)
htmlContent == [m \in GeneratedTexts |-> markdownToHtml(MarkdownContent(m))]

\* handleSendToNotion: the payload (without fecha, the time of the call)
payload ==
    LET Of(rawMarkdown, summaryText) ==
            [ titulo |-> ProjectName(rawMarkdown, MinutaDeReunion),
              resumen |-> Trim(summaryText),
              bloques_notion |-> parseMarkdownToNotionBlocks(rawMarkdown) ]
    IN  [m \in GeneratedTexts |-> Of(MarkdownContent(m), Split(m, "---")[1])]

\* renderContent: what the view shows of the document.  The cases other
\* than Done show nothing of it.
renderContent(st, m) == IF st # Done THEN None ELSE Some(DoneView[m])

(* ------------------------------- state --------------------------------- *)
VARIABLES
    status,              \* useState<AppStatus>
    minutes,             \* useState('')
    error,               \* useState<string | null>
    recordingTime,       \* useState(0)
    transcriptionInput,  \* useState('')
    mediaRecorderRef,    \* id of the recorder the ref holds, 0 for null
    audioChunksRef,      \* sequence of chunks (each named by its recorder)
    streamsRef,          \* set of streams the ref holds
    audioContextRef,     \* id of the context the ref holds, 0 for null
    timerIntervalRef,    \* id of the interval the ref holds, 0 for null
    liveStreams,         \* streams acquired whose tracks are not stopped
    openContexts,        \* AudioContexts created and not closed
    activeTimers,        \* intervals set and not cleared
    recorders,           \* MediaRecorders created: id -> [state, pending events]
    starts,              \* handleStartRecording invocations: id -> await position
    pendingTranscribe,   \* bag of the blobs of the transcribeAudio calls awaited
    pendingGenerate,     \* bag of the texts of the generateMinutesFromText calls awaited
    pendingWrites,       \* navigator.clipboard.write promises not settled
    lastEvent,           \* history: the handler or callback that ran last
    view,                \* what renderContent shows of the document
    clipboardItems,      \* bag of the HTML of the clipboard writes not settled
    isSendingToNotion,   \* useState(false)
    notionSendSuccess,   \* useState<boolean | null>(null)
    pendingFetch,        \* bag of the payloads of the fetch calls awaited
    pendingResponseText  \* bag of the statuses of the response.text() calls awaited

session == <<status, minutes, error, recordingTime, transcriptionInput>>
refs == <<mediaRecorderRef, audioChunksRef, streamsRef, audioContextRef, timerIntervalRef>>
engine == <<liveStreams, openContexts, activeTimers, recorders>>
async == <<starts, pendingTranscribe, pendingGenerate, pendingWrites>>
notion == <<isSendingToNotion, notionSendSuccess, pendingFetch, pendingResponseText>>
vars == <<session, refs, engine, async, lastEvent, view, clipboardItems, notion>>

\* React renders again after the state updates of a handler or callback.  The
\* view shown depends on status and minutes only: after a step that changed
\* neither, the render shows what it showed (ViewIsRendered below).
Render ==
    view' = IF status' = status /\ minutes' = minutes THEN view
            ELSE renderContent(status', minutes')

\* The history keeps the name of the handler that ran last when a property
\* below needs to tell it from the others, and "other" otherwise.
Tracked ==
    {"TranscribeReturn", "GenerateReturn", "SubmitClick", "ResetClick",
     "StartRequest", "StopRequest", "RecorderOnStop",
     "handleSendToNotion", "FetchReturn", "ResponseTextReturn"}
Event(name, outcome) ==
    [name |-> IF name \in Tracked THEN name ELSE "other", outcome |-> outcome]

Init ==
    /\ status = Idle
    /\ minutes = ""
    /\ error = None
    /\ recordingTime = 0
    /\ transcriptionInput = ""
    /\ mediaRecorderRef = 0
    /\ audioChunksRef = <<>>
    /\ streamsRef = {}
    /\ audioContextRef = 0
    /\ timerIntervalRef = 0
    /\ liveStreams = {}
    /\ openContexts = {}
    /\ activeTimers = {}
    /\ recorders = <<>>
    /\ starts = <<>>
    /\ pendingTranscribe = EmptyBag
    /\ pendingGenerate = EmptyBag
    /\ pendingWrites = 0
    /\ lastEvent = Event("init", NoOutcome)
    /\ view = renderContent(Idle, "")
    /\ clipboardItems = EmptyBag
    /\ isSendingToNotion = FALSE
    /\ notionSendSuccess = None
    /\ pendingFetch = EmptyBag
    /\ pendingResponseText = EmptyBag

(* ----------------------------- teardown -------------------------------- *)
\* cleanupStreams: stop the tracks of the streams in streamsRef, close the
\* context in audioContextRef, clear the interval in timerIntervalRef
\* what cleanupStreams reads and writes
TeardownState ==
    [ streamsRef |-> streamsRef, liveStreams |-> liveStreams,
      audioContextRef |-> audioContextRef, openContexts |-> openContexts,
      timerIntervalRef |-> timerIntervalRef, activeTimers |-> activeTimers ]

\* cleanupStreams without the three assignments that empty the refs
cleanupStreamsKeepsRefs(s) ==
    [ s EXCEPT !.liveStreams = s.liveStreams \ s.streamsRef,
               !.openContexts = s.openContexts \ {s.audioContextRef},
               !.activeTimers = s.activeTimers \ {s.timerIntervalRef} ]

\* cleanupStreams as a function of that state.  The context is closed only
\* if the ref holds one that is not closed yet, the interval cleared only if
\* the ref holds one; stopping a stopped track does nothing.
cleanupStreamsOf(s) ==
    [ streamsRef |-> {},
      liveStreams |-> s.liveStreams \ s.streamsRef,
      audioContextRef |-> 0,
      openContexts |-> IF s.audioContextRef # 0 /\ s.audioContextRef \in s.openContexts
                       THEN s.openContexts \ {s.audioContextRef}
                       ELSE s.openContexts,
      timerIntervalRef |-> 0,
      activeTimers |-> IF s.timerIntervalRef # 0
                       THEN s.activeTimers \ {s.timerIntervalRef}
                       ELSE s.activeTimers ]

cleanupStreams ==
    LET s == cleanupStreamsOf(TeardownState)
    IN  /\ liveStreams' = s.liveStreams
        /\ streamsRef' = s.streamsRef
        /\ openContexts' = s.openContexts
        /\ audioContextRef' = s.audioContextRef
        /\ activeTimers' = s.activeTimers
        /\ timerIntervalRef' = s.timerIntervalRef

\* MediaRecorder.stop() on a recording recorder: it becomes inactive at once
\* and the browser queues a final dataavailable event and then a stop event
StopRecorder(r) ==
    [recorders EXCEPT ![r] = [state |-> "inactive", pending |-> <<"dataavailable", "stop">>]]

IsRecording(r) == r # 0 /\ recorders[r].state = "recording"

\* handleReset
handleReset ==
    /\ cleanupStreams
    /\ recorders' = IF IsRecording(mediaRecorderRef) THEN StopRecorder(mediaRecorderRef)
                    ELSE recorders
    /\ mediaRecorderRef' = 0
    /\ audioChunksRef' = <<>>
    /\ status' = Idle
    /\ minutes' = ""
    /\ error' = None
    /\ recordingTime' = 0
    /\ transcriptionInput' = ""
    /\ isSendingToNotion' = FALSE
    /\ notionSendSuccess' = None

(* --------------------------- the pipeline ------------------------------ *)
\* generateAndSetMinutes up to its await: the guard, then the call is issued
generateAndSetMinutes(transcription) ==
    IF Trim(transcription) = ""
    THEN /\ error' = Some(MsgEmptyInput)
         /\ status' = Error
         /\ UNCHANGED pendingGenerate
    ELSE /\ status' = Generating
         /\ pendingGenerate' = pendingGenerate (+) SetToBag({transcription})
         /\ UNCHANGED error

\* generateAndSetMinutes after its await.  An undefined result makes
\* minutesResult.startsWith throw: the async function rejects and sets nothing.
GenerateReturn(c, o) ==
    /\ BagIn(c, pendingGenerate)
    /\ pendingGenerate' = pendingGenerate (-) SetToBag({c})
    /\ LET minutesResult == generateMinutesFromText(o)
       IN  IF minutesResult = None
           THEN UNCHANGED <<status, minutes, error>>
           ELSE IF StartsWith(minutesResult[1], "Error")
           THEN /\ error' = minutesResult
                /\ status' = Error
                /\ UNCHANGED minutes
           ELSE /\ minutes' = minutesResult[1]
                /\ status' = Done
                /\ UNCHANGED error
    /\ lastEvent' = Event("GenerateReturn", o)
    /\ UNCHANGED <<recordingTime, transcriptionInput, refs, engine,
                   starts, pendingTranscribe, pendingWrites>>
    /\ UNCHANGED <<clipboardItems, notion>>
    /\ Render

\* the onstop callback after its await of transcribeAudio
TranscribeReturn(c, o) ==
    /\ BagIn(c, pendingTranscribe)
    /\ pendingTranscribe' = pendingTranscribe (-) SetToBag({c})
    /\ LET transcriptionResult == transcribeAudio(o)
       IN  IF StartsWith(transcriptionResult, "Error:")
           THEN /\ error' = Some(transcriptionResult)
                /\ status' = Error
                /\ UNCHANGED pendingGenerate
           ELSE generateAndSetMinutes(transcriptionResult)
    /\ lastEvent' = Event("TranscribeReturn", o)
    /\ UNCHANGED <<minutes, recordingTime, transcriptionInput, refs, engine,
                   starts, pendingWrites>>
    /\ UNCHANGED <<clipboardItems, notion>>
    /\ Render

(* --------------------------- the recorder ------------------------------ *)
\* ondataavailable: the final chunk of a stopped recorder, possibly empty
RecorderDataAvailable(r, size) ==
    /\ r \in DOMAIN recorders
    /\ recorders[r].pending # <<>>
    /\ Head(recorders[r].pending) = "dataavailable"
    /\ recorders' = [recorders EXCEPT ![r].pending = Tail(@)]
    /\ audioChunksRef' = IF size > 0 THEN Append(audioChunksRef, r) ELSE audioChunksRef
    /\ lastEvent' = Event("RecorderDataAvailable", NoOutcome)
    /\ UNCHANGED <<session, mediaRecorderRef, streamsRef, audioContextRef,
                   timerIntervalRef, liveStreams, openContexts, activeTimers, async>>
    /\ UNCHANGED <<clipboardItems, notion>>
    /\ Render

\* onstop without its test of the chunk list: every recording is transcribed
RecorderOnStopNoCheck(r) ==
    /\ r \in DOMAIN recorders
    /\ recorders[r].pending # <<>>
    /\ Head(recorders[r].pending) = "stop"
    /\ recorders' = [recorders EXCEPT ![r].pending = Tail(@)]
    /\ cleanupStreams
    /\ status' = Transcribing
    /\ pendingTranscribe' = pendingTranscribe (+) SetToBag({audioChunksRef})
    /\ lastEvent' = Event("RecorderOnStop", NoOutcome)
    /\ UNCHANGED <<minutes, error, recordingTime, transcriptionInput, mediaRecorderRef,
                   audioChunksRef, starts, pendingGenerate, pendingWrites>>
    /\ UNCHANGED <<clipboardItems, notion>>
    /\ Render

\* onstop up to its await
RecorderOnStop(r) ==
    /\ r \in DOMAIN recorders
    /\ recorders[r].pending # <<>>
    /\ Head(recorders[r].pending) = "stop"
    /\ recorders' = [recorders EXCEPT ![r].pending = Tail(@)]
    /\ cleanupStreams
    /\ IF Len(audioChunksRef) = 0
       THEN /\ error' = Some(MsgEmptyRecording)
            /\ status' = Error
            /\ UNCHANGED pendingTranscribe
       ELSE /\ status' = Transcribing
            /\ pendingTranscribe' = pendingTranscribe (+) SetToBag({audioChunksRef})
            /\ UNCHANGED error
    /\ lastEvent' = Event("RecorderOnStop", NoOutcome)
    /\ UNCHANGED <<minutes, recordingTime, transcriptionInput, mediaRecorderRef,
                   audioChunksRef, starts, pendingGenerate, pendingWrites>>
    /\ UNCHANGED <<clipboardItems, notion>>
    /\ Render

\* the setInterval callback
Tick(t) ==
    /\ t \in activeTimers
    /\ recordingTime < MaxTime
    /\ recordingTime' = recordingTime + 1
    /\ lastEvent' = Event("Tick", NoOutcome)
    /\ UNCHANGED <<status, minutes, error, transcriptionInput, refs, engine, async>>
    /\ UNCHANGED <<clipboardItems, notion>>
    /\ Render

(* ------------------------- handleStartRecording ------------------------ *)
\* the start button (Idle): handleReset, then getDisplayMedia is awaited
StartClick ==
    /\ status = Idle
    /\ Len(starts) < MaxStarts
    /\ handleReset
    /\ starts' = Append(starts, "getDisplayMedia")
    /\ lastEvent' = Event("StartClick", NoOutcome)
    /\ UNCHANGED <<pendingTranscribe, pendingGenerate, pendingWrites>>
    /\ UNCHANGED <<clipboardItems, pendingFetch, pendingResponseText>>
    /\ Render

DisplayStream(i) == <<i, "display">>
UserStream(i) == <<i, "user">>

\* getDisplayMedia resolved: getUserMedia is awaited
DisplayResolve(i) ==
    /\ i \in DOMAIN starts
    /\ starts[i] = "getDisplayMedia"
    /\ starts' = [starts EXCEPT ![i] = "getUserMedia"]
    /\ liveStreams' = liveStreams \cup {DisplayStream(i)}
    /\ lastEvent' = Event("DisplayResolve", NoOutcome)
    /\ UNCHANGED <<session, refs, openContexts, activeTimers, recorders,
                   pendingTranscribe, pendingGenerate, pendingWrites>>
    /\ UNCHANGED <<clipboardItems, notion>>
    /\ Render

\* the catch block
StartMessage(name) ==
    IF name \in {"NotAllowedError", "NotFoundError"} THEN MsgStartPermission
    ELSE MsgStartGeneric

\* the catch block without its setStatus(AppStatus.Error)
StartCatchNoStatus(name) ==
    /\ error' = Some(StartMessage(name))
    /\ UNCHANGED status
    /\ cleanupStreams

StartCatch(name) ==
    /\ error' = Some(StartMessage(name))
    /\ status' = Error
    /\ cleanupStreams

\* getDisplayMedia rejected
DisplayReject(i, name) ==
    /\ i \in DOMAIN starts
    /\ starts[i] = "getDisplayMedia"
    /\ starts' = [starts EXCEPT ![i] = "done"]
    /\ StartCatch(name)
    /\ lastEvent' = Event("DisplayReject", NoOutcome)
    /\ UNCHANGED <<minutes, recordingTime, transcriptionInput, mediaRecorderRef,
                   audioChunksRef, recorders,
                   pendingTranscribe, pendingGenerate, pendingWrites>>
    /\ UNCHANGED <<clipboardItems, notion>>
    /\ Render

\* getUserMedia rejected: the display stream was acquired and is in no ref
UserReject(i, name) ==
    /\ i \in DOMAIN starts
    /\ starts[i] = "getUserMedia"
    /\ starts' = [starts EXCEPT ![i] = "done"]
    /\ StartCatch(name)
    /\ lastEvent' = Event("UserReject", NoOutcome)
    /\ UNCHANGED <<minutes, recordingTime, transcriptionInput, mediaRecorderRef,
                   audioChunksRef, recorders,
                   pendingTranscribe, pendingGenerate, pendingWrites>>
    /\ UNCHANGED <<clipboardItems, notion>>
    /\ Render

\* getUserMedia resolved: mix, create and start the recorder, start the timer
UserResolve(i) ==
    /\ i \in DOMAIN starts
    /\ starts[i] = "getUserMedia"
    /\ starts' = [starts EXCEPT ![i] = "done"]
    /\ liveStreams' = liveStreams \cup {UserStream(i)}
    /\ streamsRef' = {DisplayStream(i), UserStream(i)}
    /\ openContexts' = openContexts \cup {i}
    /\ audioContextRef' = i
    /\ recorders' = recorders @@ (i :> [state |-> "recording", pending |-> <<>>])
    /\ mediaRecorderRef' = i
    /\ audioChunksRef' = <<>>
    /\ status' = Recording
    /\ recordingTime' = 0
    /\ activeTimers' = activeTimers \cup {i}
    /\ timerIntervalRef' = i
    /\ lastEvent' = Event("UserResolve", NoOutcome)
    /\ UNCHANGED <<minutes, error, transcriptionInput,
                   pendingTranscribe, pendingGenerate, pendingWrites>>
    /\ UNCHANGED <<clipboardItems, notion>>
    /\ Render

\* getUserMedia resolved and the mixing cannot proceed: new AudioContext()
\* throws after streamsRef was assigned, and the catch block runs.  The
\* cleanup works on the new streamsRef and on the context and interval the
\* refs held before.
UserResolveThrows(i) ==
    /\ i \in DOMAIN starts
    /\ starts[i] = "getUserMedia"
    /\ starts' = [starts EXCEPT ![i] = "done"]
    /\ error' = Some(StartMessage("NotSupportedError"))
    /\ status' = Error
    /\ liveStreams' = liveStreams \ {DisplayStream(i)}
    /\ streamsRef' = {}
    /\ openContexts' = openContexts \ {audioContextRef}
    /\ audioContextRef' = 0
    /\ activeTimers' = activeTimers \ {timerIntervalRef}
    /\ timerIntervalRef' = 0
    /\ lastEvent' = Event("UserResolveThrows", NoOutcome)
    /\ UNCHANGED <<minutes, recordingTime, transcriptionInput, mediaRecorderRef,
                   audioChunksRef, recorders,
                   pendingTranscribe, pendingGenerate, pendingWrites>>
    /\ UNCHANGED <<clipboardItems, notion>>
    /\ Render

\* handleStopRecording without the test of the recorder's state
StopClickAnyState ==
    /\ status = Recording
    /\ recorders' = IF mediaRecorderRef # 0 THEN StopRecorder(mediaRecorderRef)
                    ELSE recorders
    /\ activeTimers' = activeTimers \ {timerIntervalRef}
    /\ lastEvent' = Event("StopClick", NoOutcome)
    /\ UNCHANGED <<session, refs, liveStreams, openContexts, async>>
    /\ UNCHANGED <<clipboardItems, notion>>
    /\ Render

\* handleStopRecording, the stop button (Recording)
StopClick ==
    /\ status = Recording
    /\ recorders' = IF IsRecording(mediaRecorderRef) THEN StopRecorder(mediaRecorderRef)
                    ELSE recorders
    /\ activeTimers' = activeTimers \ {timerIntervalRef}
    /\ lastEvent' = Event("StopClick", NoOutcome)
    /\ UNCHANGED <<session, refs, liveStreams, openContexts, async>>
    /\ UNCHANGED <<clipboardItems, notion>>
    /\ Render

(* ---------------------------- manual text ------------------------------ *)
\* the "Usar Texto Existente" button (Idle)
ChooseManualText ==
    /\ status = Idle
    /\ status' = ReadyToGenerate
    /\ lastEvent' = Event("ChooseManualText", NoOutcome)
    /\ UNCHANGED <<minutes, error, recordingTime, transcriptionInput, refs,
                   engine, async>>
    /\ UNCHANGED <<clipboardItems, notion>>
    /\ Render

\* the textarea's onChange (ReadyToGenerate)
TypeText(t) ==
    /\ status = ReadyToGenerate
    /\ transcriptionInput' = t
    /\ lastEvent' = Event("TypeText", NoOutcome)
    /\ UNCHANGED <<status, minutes, error, recordingTime, refs, engine, async>>
    /\ UNCHANGED <<clipboardItems, notion>>
    /\ Render

\* the submit button without its disabled attribute
SubmitNeverDisabled == FALSE

\* disabled={!transcriptionInput.trim()} of the submit button
SubmitDisabled == Trim(transcriptionInput) = ""

\* a press of the submit button (ReadyToGenerate); a disabled button ignores it
SubmitClick ==
    /\ status = ReadyToGenerate
    /\ IF SubmitDisabled
       THEN UNCHANGED <<status, error, pendingGenerate>>
       ELSE generateAndSetMinutes(transcriptionInput)
    /\ lastEvent' = Event("SubmitClick", NoOutcome)
    /\ UNCHANGED <<minutes, recordingTime, transcriptionInput, refs, engine,
                   starts, pendingTranscribe, pendingWrites>>
    /\ UNCHANGED <<clipboardItems, notion>>
    /\ Render

\* the reset buttons: Cancelar (ReadyToGenerate), Empezar de Nuevo (Done),
\* Intentar de Nuevo (Error)
ResetClick ==
    /\ status \in {ReadyToGenerate, Done, Error}
    /\ handleReset
    /\ lastEvent' = Event("ResetClick", NoOutcome)
    /\ UNCHANGED async
    /\ UNCHANGED <<clipboardItems, pendingFetch, pendingResponseText>>
    /\ Render

(* ------------------------------ clipboard ------------------------------ *)
\* handleCopy (Done): the promise writeText returns is not observed, so
\* neither outcome of the write changes the session
handleCopy ==
    /\ status = Done
    /\ lastEvent' = Event("handleCopy", NoOutcome)
    /\ UNCHANGED <<session, refs, engine, async>>
    /\ UNCHANGED <<clipboardItems, notion>>
    /\ Render

\* handleCopySummary (Done): as handleCopy, and nothing for an empty summary
handleCopySummary ==
    /\ status = Done
    /\ lastEvent' = Event("handleCopySummary", NoOutcome)
    /\ UNCHANGED <<session, refs, engine, async>>
    /\ UNCHANGED <<clipboardItems, notion>>
    /\ Render

\* handleCopyFormatted (Done): nothing for an empty body; creating the HTML
\* blob or the ClipboardItem may throw (created = FALSE), else the write is issued
handleCopyFormatted(created) ==
    /\ status = Done
    /\ IF MarkdownContent(minutes) = ""
       THEN UNCHANGED <<error, pendingWrites, clipboardItems>>
       ELSE IF created
       THEN /\ pendingWrites < MaxWrites
            /\ pendingWrites' = pendingWrites + 1
            /\ clipboardItems' = clipboardItems (+) SetToBag({htmlContent[minutes]})
            /\ UNCHANGED error
       ELSE /\ error' = Some(MsgCopyHtml)
            /\ UNCHANGED <<pendingWrites, clipboardItems>>
    /\ lastEvent' = Event("handleCopyFormatted", NoOutcome)
    /\ UNCHANGED <<status, minutes, recordingTime, transcriptionInput, refs, engine,
                   starts, pendingTranscribe, pendingGenerate>>
    /\ UNCHANGED notion
    /\ Render

\* navigator.clipboard.write fulfilled
ClipboardWriteResolve ==
    /\ pendingWrites > 0
    /\ pendingWrites' = pendingWrites - 1
    /\ \E item \in BagToSet(clipboardItems) :
          clipboardItems' = clipboardItems (-) SetToBag({item})
    /\ lastEvent' = Event("ClipboardWriteResolve", NoOutcome)
    /\ UNCHANGED <<session, refs, engine,
                   starts, pendingTranscribe, pendingGenerate>>
    /\ UNCHANGED notion
    /\ Render

\* navigator.clipboard.write rejected
ClipboardWriteReject ==
    /\ pendingWrites > 0
    /\ pendingWrites' = pendingWrites - 1
    /\ \E item \in BagToSet(clipboardItems) :
          clipboardItems' = clipboardItems (-) SetToBag({item})
    /\ error' = Some(MsgCopyFormatted)
    /\ lastEvent' = Event("ClipboardWriteReject", NoOutcome)
    /\ UNCHANGED <<status, minutes, recordingTime, transcriptionInput, refs, engine,
                   starts, pendingTranscribe, pendingGenerate>>
    /\ UNCHANGED notion
    /\ Render

(* ------------------------ the start button again ----------------------- *)
\* the start button stays rendered while an acquisition is awaited (the status
\* is still Idle): a further press of it
StartClickAgain ==
    /\ status = Idle
    /\ Len(starts) >= MaxStarts
    /\ Len(starts) < MaxStarts + MaxRequests
    /\ handleReset
    /\ starts' = Append(starts, "getDisplayMedia")
    /\ lastEvent' = Event("StartClick", NoOutcome)
    /\ UNCHANGED <<pendingTranscribe, pendingGenerate, pendingWrites>>
    /\ UNCHANGED <<clipboardItems, pendingFetch, pendingResponseText>>
    /\ Render

(* ------------------- handlers invoked without their control ------------ *)
\* handleStopRecording has guards on the refs and none on the status.  Its
\* button is rendered in Recording only; this is the handler invoked in Idle.
StopRequest ==
    /\ status = Idle
    /\ recorders' = IF IsRecording(mediaRecorderRef) THEN StopRecorder(mediaRecorderRef)
                    ELSE recorders
    /\ activeTimers' = activeTimers \ {timerIntervalRef}
    /\ lastEvent' = Event("StopRequest", NoOutcome)
    /\ UNCHANGED <<session, refs, liveStreams, openContexts, async>>
    /\ UNCHANGED <<clipboardItems, notion>>
    /\ Render

\* handleStartRecording has no guard at all: handleReset, then getDisplayMedia
\* is awaited.  Its button is rendered in Idle only; this is the handler
\* invoked in Recording.
StartRequest ==
    /\ status = Recording
    /\ Len(starts) < MaxStarts + MaxRequests
    /\ handleReset
    /\ starts' = Append(starts, "getDisplayMedia")
    /\ lastEvent' = Event("StartRequest", NoOutcome)
    /\ UNCHANGED <<pendingTranscribe, pendingGenerate, pendingWrites>>
    /\ UNCHANGED <<clipboardItems, pendingFetch, pendingResponseText>>
    /\ Render

(* ------------------------------ the sink ------------------------------- *)
\* what fetch can settle with: a response (ok is status in 200..299) or a
\* rejection, whose TypeError carries a message
FetchOutcomes ==
    { [kind |-> "response", ok |-> TRUE, status |-> "200"],
      [kind |-> "response", ok |-> FALSE, status |-> "500"],
      [kind |-> "rejected", ok |-> FALSE, status |-> "Failed to fetch"] }

\* what response.text() can settle with: the body, or a rejection
ResponseTextOutcomes ==
    { [kind |-> "text", text |-> "fallo"],
      [kind |-> "rejected", text |-> "body stream error"] }

\* the catch block of handleSendToNotion without its finally block
SendFailedKeepsSending(errorMessage) ==
    /\ error' = Some(errorMessage)
    /\ notionSendSuccess' = Some(FALSE)
    /\ UNCHANGED isSendingToNotion

\* the catch and finally blocks of handleSendToNotion
SendFailed(errorMessage) ==
    /\ error' = Some(errorMessage)
    /\ notionSendSuccess' = Some(FALSE)
    /\ isSendingToNotion' = FALSE

\* handleSendToNotion up to its await of fetch.  Its button is commented out
\* in the Done view; this is the handler invoked as that button would:
\* disabled={isSendingToNotion || notionSendSuccess === true}.
handleSendToNotion ==
    /\ status = Done
    /\ ~isSendingToNotion /\ notionSendSuccess # Some(TRUE)
    /\ IF payload[minutes].bloques_notion = <<>>
       THEN /\ SendFailed(MsgNotionEmpty)
            /\ UNCHANGED pendingFetch
       ELSE /\ isSendingToNotion' = TRUE
            /\ notionSendSuccess' = None
            /\ error' = None
            /\ pendingFetch' = pendingFetch (+) SetToBag({payload[minutes]})
    /\ lastEvent' = Event("handleSendToNotion", NoOutcome)
    /\ UNCHANGED <<status, minutes, recordingTime, transcriptionInput, refs, engine,
                   async, clipboardItems, pendingResponseText>>
    /\ Render

\* handleSendToNotion after its await of fetch
FetchReturn(p, r) ==
    /\ BagIn(p, pendingFetch)
    /\ pendingFetch' = pendingFetch (-) SetToBag({p})
    /\ IF r.kind = "rejected"
       THEN /\ SendFailed(r.status)
            /\ UNCHANGED pendingResponseText
       ELSE IF r.ok
       THEN /\ notionSendSuccess' = Some(TRUE)
            /\ isSendingToNotion' = FALSE
            /\ UNCHANGED <<error, pendingResponseText>>
       ELSE /\ pendingResponseText' = pendingResponseText (+) SetToBag({r.status})
            /\ UNCHANGED <<error, notionSendSuccess, isSendingToNotion>>
    /\ lastEvent' = Event("FetchReturn", r)
    /\ UNCHANGED <<status, minutes, recordingTime, transcriptionInput, refs, engine,
                   async, clipboardItems>>
    /\ Render

\* `Error del servidor: ${response.status} - ${errorText}`
MsgServerError(responseStatus, errorText) ==
    "Error del servidor: " \o responseStatus \o " - " \o errorText

\* handleSendToNotion after its await of response.text()
ResponseTextReturn(responseStatus, o) ==
    /\ BagIn(responseStatus, pendingResponseText)
    /\ pendingResponseText' = pendingResponseText (-) SetToBag({responseStatus})
    /\ SendFailed(IF o.kind = "text" THEN MsgServerError(responseStatus, o.text)
                  ELSE o.text)
    /\ lastEvent' = Event("ResponseTextReturn",
                         [kind |-> o.kind, text |-> o.text, status |-> responseStatus])
    /\ UNCHANGED <<status, minutes, recordingTime, transcriptionInput, refs, engine,
                   async, clipboardItems, pendingFetch>>
    /\ Render

(* ---------------------------- specification ---------------------------- *)
Next ==
    \/ StartClick
    \/ \E i \in DOMAIN starts : DisplayResolve(i)
    \/ \E i \in DOMAIN starts, name \in ErrorNames : DisplayReject(i, name)
    \/ \E i \in DOMAIN starts : UserResolve(i)
    \/ \E i \in DOMAIN starts, name \in ErrorNames : UserReject(i, name)
    \/ \E i \in DOMAIN starts : UserResolveThrows(i)
    \/ StopClick
    \/ \E r \in DOMAIN recorders, size \in {0, 1} : RecorderDataAvailable(r, size)
    \/ \E r \in DOMAIN recorders : RecorderOnStop(r)
    \/ \E t \in activeTimers : Tick(t)
    \/ \E c \in BagToSet(pendingTranscribe), o \in TranscribeOutcomes : TranscribeReturn(c, o)
    \/ \E c \in BagToSet(pendingGenerate), o \in GenerateOutcomes : GenerateReturn(c, o)
    \/ ChooseManualText
    \/ \E t \in InputTexts : TypeText(t)
    \/ SubmitClick
    \/ ResetClick
    \/ handleCopy
    \/ handleCopySummary
    \/ \E created \in BOOLEAN : handleCopyFormatted(created)
    \/ ClipboardWriteResolve
    \/ ClipboardWriteReject

Spec == Init /\ [][Next]_vars

\* The program with its awaited service calls settled: a call to the Gemini
\* service that is awaited returns, with one outcome or another.  Nothing is
\* assumed of the user or of the media devices.
CallsReturn ==
    /\ WF_vars(\E c \in BagToSet(pendingTranscribe), o \in TranscribeOutcomes :
                    TranscribeReturn(c, o))
    /\ WF_vars(\E c \in BagToSet(pendingGenerate), o \in GenerateOutcomes :
                    GenerateReturn(c, o))

SpecLive == Init /\ [][Next]_vars /\ CallsReturn

\* the program with its two capture handlers also invoked where the interface
\* renders no control for them
NextRequests ==
    \/ Next
    \/ StopRequest
    \/ StartRequest

SpecRequests == Init /\ [][NextRequests]_vars

\* The document functions on their own: a generation call is awaited (text
\* typed and submitted), the service returns any of Documents, and the view
\* and the copy handlers split what it returned.
InitDocuments ==
    /\ status = Generating
    /\ minutes = ""
    /\ error = None
    /\ recordingTime = 0
    /\ transcriptionInput = "Acta del lunes"
    /\ mediaRecorderRef = 0
    /\ audioChunksRef = <<>>
    /\ streamsRef = {}
    /\ audioContextRef = 0
    /\ timerIntervalRef = 0
    /\ liveStreams = {}
    /\ openContexts = {}
    /\ activeTimers = {}
    /\ recorders = <<>>
    /\ starts = <<>>
    /\ pendingTranscribe = EmptyBag
    /\ pendingGenerate = SetToBag({"Acta del lunes"})
    /\ pendingWrites = 0
    /\ lastEvent = Event("SubmitClick", NoOutcome)
    /\ view = renderContent(Generating, "")
    /\ clipboardItems = EmptyBag
    /\ isSendingToNotion = FALSE
    /\ notionSendSuccess = None
    /\ pendingFetch = EmptyBag
    /\ pendingResponseText = EmptyBag

NextDocuments ==
    \/ \E c \in BagToSet(pendingGenerate), d \in Documents : GenerateReturn(c, TextOutcome(d))
    \/ handleCopy
    \/ handleCopySummary

SpecDocuments == InitDocuments /\ [][NextDocuments]_vars

\* The two encodings and the title on their own: a generation call is
\* awaited, the service returns any of Minutas, and the view, the formatted
\* copy and the send to the sink encode what it returned.
NextEncodings ==
    \/ \E c \in BagToSet(pendingGenerate), d \in Minutas : GenerateReturn(c, TextOutcome(d))
    \/ \E created \in BOOLEAN : handleCopyFormatted(created)
    \/ handleSendToNotion

SpecEncodings == InitDocuments /\ [][NextEncodings]_vars

\* The sink on its own: the service returns a body of one line, and the
\* document is sent, copied and reset with every outcome of the calls awaited.
NextSink ==
    \/ \E c \in BagToSet(pendingGenerate), l \in BodyLines :
          GenerateReturn(c, TextOutcome(Minuta(l)))
    \/ handleSendToNotion
    \/ \E p \in BagToSet(pendingFetch), r \in FetchOutcomes : FetchReturn(p, r)
    \/ \E s \in BagToSet(pendingResponseText), o \in ResponseTextOutcomes :
          ResponseTextReturn(s, o)
    \/ \E created \in BOOLEAN : handleCopyFormatted(created)
    \/ ClipboardWriteResolve
    \/ ClipboardWriteReject
    \/ ResetClick

SpecSink == InitDocuments /\ [][NextSink]_vars

\* the program with further presses of the start button
NextOverlap ==
    \/ Next
    \/ StartClickAgain

SpecOverlap == Init /\ [][NextOverlap]_vars

TypeOK ==
    /\ status \in AppStatus
    /\ recordingTime \in 0..MaxTime
    /\ Len(starts) <= MaxStarts
    /\ pendingWrites \in 0..MaxWrites

\* the view is the rendering of the current status and minutes
ViewIsRendered == view = renderContent(status, minutes)

(* ------------------------------ properties ----------------------------- *)
OutstandingCalls == BagCardinality(pendingTranscribe) + BagCardinality(pendingGenerate)

\* the service call failed, or it returned no usable transcript
TranscriptionFailed(o) == CallFailed(o) \/ EmptyText(o)

\* the service call returned a document
GenerationSucceeded(o) == o.kind = "text" /\ o.text # None

\* the status changes the specification lists; a reset is taken to be
\* allowed from every status, as the reset rule of the specification says
ListedTransitions ==
    { <<Idle, Recording>>, <<Idle, ReadyToGenerate>>, <<Idle, Error>>,
      <<Recording, Transcribing>>, <<Recording, Error>>,
      <<Transcribing, Generating>>, <<Transcribing, Error>>,
      <<ReadyToGenerate, Generating>>,
      <<Generating, Done>>, <<Generating, Error>>,
      <<Done, Idle>>, <<Error, Idle>> }

\* C1: the status changes only along the listed transitions (and to Idle by
\* a reset); no other status change ever occurs.
C1_OnlyListedTransitions ==
    [][status' # status =>
          \/ <<status, status'>> \in ListedTransitions
          \/ lastEvent'.name = "ResetClick" /\ status' = Idle]_vars

\* C2: every transcription failure moves a session in Transcribing to Failed
\* and issues no generateMinutes call with the failure as its transcript.
C2_TranscriptionFailureFails ==
    [][(/\ lastEvent'.name = "TranscribeReturn"
        /\ status = Transcribing
        /\ TranscriptionFailed(lastEvent'.outcome))
         => status' = Error /\ pendingGenerate' = pendingGenerate]_vars

\* C3: when the transcription call returns empty or whitespace-only text (or
\* no text at all) the session becomes Failed with the empty-transcript
\* reason, no generation call is issued and the minutes document is not set.
C3_EmptyTranscriptFails ==
    [][(lastEvent'.name = "TranscribeReturn" /\ EmptyText(lastEvent'.outcome))
         => /\ status' = Error
            /\ error' = Some("Error: " \o MsgEmptyTranscription)
            /\ minutes' = minutes
            /\ pendingGenerate' = pendingGenerate]_vars

\* C3 witness: a whitespace-only transcript has just been returned to a
\* session that was transcribing, and the session is Failed with that reason.
C3_Witness ==
    /\ lastEvent = Event("TranscribeReturn", TextOutcome(" \n"))
    /\ status = Error
    /\ error = Some("Error: " \o MsgEmptyTranscription)
    /\ minutes = ""

\* C4: a session in Generating becomes Done with the returned document when
\* the generation call succeeded, and Failed, with no document stored, when
\* the call failed.
C4_GenerationOutcomeDecides ==
    [][(lastEvent'.name = "GenerateReturn" /\ status = Generating)
         => /\ CallFailed(lastEvent'.outcome)
                 => status' = Error /\ minutes' = minutes
            /\ GenerationSucceeded(lastEvent'.outcome)
                 => status' = Done /\ minutes' = lastEvent'.outcome.text[1]]_vars

\* C5: the minutes document is non-empty only if status = Done.
C5_MinutesOnlyWhenDone == minutes # "" => status = Done

\* C6: no action that leaves the status at Done sets the failure reason
\* (the failure reason is set only if status = Failed).
C6_NoErrorSetInDone ==
    [][(status = Done /\ status' = Done /\ error = None) => error' = None]_vars

C8_LateResultDiscarded ==
    [][(/\ lastEvent.name = "ResetClick"
        /\ lastEvent'.name \in {"TranscribeReturn", "GenerateReturn"})
         => UNCHANGED <<status, minutes, error>>]_vars

\* C9: at most one external-service call is outstanding at any time.
C9_AtMostOneCall == OutstandingCalls <= 1

\* C10: right after a reset the status is Idle, every session field is
\* cleared and no audio resource is left: no live source, no open audio
\* context, no running timer, no recorder, no chunks.
C10_ResetClearsAll ==
    lastEvent.name = "ResetClick" =>
        /\ status = Idle
        /\ minutes = "" /\ error = None /\ recordingTime = 0 /\ transcriptionInput = ""
        /\ liveStreams = {} /\ openContexts = {} /\ activeTimers = {}
        /\ mediaRecorderRef = 0 /\ audioChunksRef = <<>>
        /\ \A r \in DOMAIN recorders : recorders[r].state # "recording"

C12_EmptyRecordingFails ==
    /\ (lastEvent.name = "RecorderOnStop" /\ audioChunksRef = <<>>)
          => status = Error /\ error = Some(MsgEmptyRecording)
    /\ ~BagIn(<<>>, pendingTranscribe)

\* a recording was stopped, its only chunk was empty, and the session failed
C12_Witness ==
    /\ lastEvent.name = "RecorderOnStop"
    /\ status = Error
    /\ error = Some(MsgEmptyRecording)
    /\ audioChunksRef = <<>>
    /\ pendingTranscribe = EmptyBag
    /\ \E r \in DOMAIN recorders :
          recorders[r].state = "inactive" /\ recorders[r].pending = <<>>

\* the step ends invocation i of handleStartRecording
StartEnds(i) == i \in DOMAIN starts /\ starts[i] # "done" /\ starts'[i] = "done"

\* the messages of the catch block
StartFailureReasons == {Some(MsgStartPermission), Some(MsgStartGeneric)}

\* C13: an invocation of handleStartRecording ends with status Recording when
\* both sources were acquired and the recorder was started, and with status
\* Error and a start-failure message when an acquisition was rejected or the
\* capture could not proceed; a failed start never ends in Recording and
\* never leaves the status as it was with nothing reported.
C13_StartEndsRecordingOrError ==
    [][\A i \in DOMAIN starts :
          StartEnds(i) =>
              IF i \in DOMAIN recorders'
              THEN status' = Recording
              ELSE status' = Error /\ error' \in StartFailureReasons]_vars

\* the display source was acquired, the microphone was refused, and the
\* session failed with the permission message
C13_Witness ==
    /\ starts = <<"done">>
    /\ DOMAIN recorders = {}
    /\ DisplayStream(1) \in liveStreams
    /\ status = Error
    /\ error = Some(MsgStartPermission)

\* the invocations of handleStartRecording both of whose sources are live
LiveSourceSets ==
    {i \in DOMAIN starts : {DisplayStream(i), UserStream(i)} \subseteq liveStreams}

RunningRecorders == {r \in DOMAIN recorders : recorders[r].state = "recording"}

\* C14: at most one audio session exists at any time, however the presses of
\* the start button interleave with the pending acquisitions: never two live
\* sets of sources, two running recorders, two open audio contexts or two
\* running timers.
C14_AtMostOneSession ==
    /\ Cardinality(LiveSourceSets) <= 1
    /\ Cardinality(RunningRecorders) <= 1
    /\ Cardinality(openContexts) <= 1
    /\ Cardinality(activeTimers) <= 1

\* no invocation of handleStartRecording is between its two acquisitions
NoAcquisitionPending == \A i \in DOMAIN starts : starts[i] = "done"

\* C15: acquired sources are live only while status = Recording: in every
\* other status, once no acquisition is in progress, every source that was
\* acquired has been released - in particular in Error after the display
\* source was acquired and the microphone was refused.
C15_SourcesLiveOnlyWhileRecording ==
    (status # Recording /\ NoAcquisitionPending) => liveStreams = {}

\* C16: recordingTime is never negative and is incremented only while status
\* = Recording: no tick of the interval is counted in Transcribing,
\* Generating, Done, Error, Idle or ReadyToGenerate.
C16_TicksOnlyWhileRecording ==
    [][/\ recordingTime' >= 0
       /\ recordingTime' > recordingTime => status = Recording]_vars

\* C17: cleanupStreams is idempotent and total.  From every state it yields
\* a state with the three refs empty and what they held released (no source
\* of streamsRef live, the context closed, the timer cleared), and a second
\* cleanupStreams leaves that state exactly as it is; the state a reset
\* leaves behind, which ran cleanupStreams, is such a state.
C17_TeardownIdempotent ==
    LET Settled(s) ==
            /\ cleanupStreamsOf(s) = s
            /\ s.streamsRef = {} /\ s.audioContextRef = 0 /\ s.timerIntervalRef = 0
            /\ s.liveStreams \cap streamsRef = {}
            /\ audioContextRef \notin s.openContexts
            /\ timerIntervalRef \notin s.activeTimers
    IN  /\ Settled(cleanupStreamsOf(TeardownState))
        /\ lastEvent.name = "ResetClick" => Settled(TeardownState)

\* a recording was made, its onstop callback tore the session down, and the
\* reset that followed ran cleanupStreams a second time
C17_Witness ==
    /\ lastEvent.name = "ResetClick"
    /\ \E r \in DOMAIN recorders :
          recorders[r].state = "inactive" /\ recorders[r].pending = <<>>
    /\ TeardownState = cleanupStreamsOf(TeardownState)
    /\ liveStreams = {} /\ openContexts = {} /\ activeTimers = {}

\* the step settled a clipboard write and reported its failure
WriteRejected ==
    /\ pendingWrites' = pendingWrites - 1
    /\ error' = Some(MsgCopyFormatted)
    /\ error' # error

\* C18: every failure surfaces as status Error with a message - also the
\* failure of a clipboard write: when the write of a copy is rejected, the
\* session ends in Error with a message set, not in the status it had.
C18_ClipboardFailureSurfaces ==
    [][WriteRejected => status' = Error /\ error' # None]_vars

\* the state SpecDocuments starts in is a state of the program
InitDocumentsReached ==
    /\ status = Generating /\ minutes = "" /\ error = None
    /\ transcriptionInput = "Acta del lunes"
    /\ pendingGenerate = SetToBag({"Acta del lunes"})
    /\ starts = <<>> /\ recorders = <<>> /\ pendingWrites = 0
    /\ lastEvent = Event("SubmitClick", NoOutcome)

\* C19: for every document with no "---" in it, the split yields an empty
\* summary and a body equal to the whole document - never the document as
\* the summary with an empty body.
C19_NoDelimiterAllBody ==
    (view # None /\ ~Includes(minutes, "---"))
        => view[1].summary = "" /\ view[1].rawMarkdown = minutes

\* no line of B is the delimiter
NoDelimiterLine(B) ==
    LET lines == Split(B, "\n")
    IN  \A k \in 1..Len(lines) : lines[k] # "---"

\* the document is S, a delimiter line and a body
HasSummary(S) == StartsWith(minutes, S \o DelimiterLine)

\* that body
BodyAfter(S) == SubSeq(minutes, Len(S) + Len(DelimiterLine) + 1, Len(minutes))

\* C20 as stated: for every summary S and every body B with no "---" line,
\* splitting S + "\n---\n" + B returns exactly (S, B).
C20_SplitRoundTrip ==
    view # None =>
        \A S \in Parts :
            (HasSummary(S) /\ BodyAfter(S) \in Parts /\ NoDelimiterLine(BodyAfter(S)))
                => view[1].summary = S /\ view[1].rawMarkdown = BodyAfter(S)

\* C20 amended: for every summary S with no "---" in it and every body B,
\* splitting S + "\n---\n" + B returns (trim(S), trim(B)), which is (S, B)
\* when neither begins or ends with white space; the first "---" decides
\* and the later ones stay inside the body.
C20_SplitRoundTripTrimmed ==
    view # None =>
        \A S \in Parts :
            (HasSummary(S) /\ BodyAfter(S) \in Parts /\ ~Includes(S, "---"))
                => /\ view[1].summary = Trim(S)
                   /\ view[1].rawMarkdown = Trim(BodyAfter(S))

\* a document whose body is itself a delimiter: the first one decided and
\* the second one is the body
C20_Witness ==
    /\ status = Done
    /\ minutes = Document("a", "---")
    /\ view = Some([summary |-> "a", rawMarkdown |-> "---", projectName |-> NoSeEspecifica])

(* ------------------------ the title and the encodings ------------------ *)
\* the body shown has no header of section 1
NoSectionOne == view # None /\ ~Includes(view[1].rawMarkdown, "### 1.")

(* C21: for a body without the header of section 1, the title extracted is  *)
(* the one "not specified" value on every path that extracts a title: the   *)
(* one the Done view shows and the one every request to the sink carries.   *)
C21_SingleSentinel ==
    NoSectionOne =>
        /\ view[1].projectName = NoSeEspecifica
        /\ \A p \in BagToSet(pendingFetch) : p.titulo = NoSeEspecifica

\* the least member of a non-empty set of numbers
Least(S) == CHOOSE k \in S : \A j \in S : k <= j

\* the lines of the body shown that begin with the numeric prefix of
\* section 1, and the lines with text below the first of them
SectionOneLines(lines) == {k \in DOMAIN lines : StartsWith(lines[k], "### 1.")}
TitleLines(lines) ==
    {j \in DOMAIN lines : j > Least(SectionOneLines(lines)) /\ Trim(lines[j]) # ""}

\* a line without the white space around it and without one leading asterisk
WithoutAsterisk(line) ==
    LET Bare(t) == Trim(IF StartsWith(t, "*") THEN SubSeq(t, 2, Len(t)) ELSE t)
    IN  Bare(Trim(line))

(* C22: when the body has a header of section 1 (by its prefix "### 1.")    *)
(* and a line with text below it, the title shown is the first such line    *)
(* without the white space around it and without one leading asterisk.      *)
C22_TitleIsFirstLine ==
    LET Titled(lines) ==
            (SectionOneLines(lines) # {} /\ TitleLines(lines) # {})
                => view[1].projectName = WithoutAsterisk(lines[Least(TitleLines(lines))])
    IN  view # None => Titled(Split(view[1].rawMarkdown, "\n"))

\* the same for the header as the prompt words it, the title line not the
\* last line of the body
C22_TitleOfPromptHeader ==
    LET Titled(lines) ==
            ( /\ SectionOneLines(lines) # {} /\ TitleLines(lines) # {}
              /\ lines[Least(SectionOneLines(lines))] = ProjectNameHeader
              /\ Least(TitleLines(lines)) < Len(lines) )
                => view[1].projectName = WithoutAsterisk(lines[Least(TitleLines(lines))])
    IN  view # None => Titled(Split(view[1].rawMarkdown, "\n"))

\* the lines of the hypertext, and the text of an element without its tags
HtmlLines(html) == SelectSeq(Split(html, "\n"), LAMBDA l : l # "")
IsElement(l, tag) == StartsWith(l, "<" \o tag \o ">")
ElementText(l, tag) ==
    Join(Split(Join(Split(SubSeq(l, Len(tag) + 3, Len(l) - Len(tag) - 3),
                          "<strong>"), ""),
               "</strong>"), "")

\* the text of a block: its runs one after the other
RECURSIVE RunsText(_)
RunsText(runs) == IF runs = <<>> THEN "" ELSE Head(runs).content \o RunsText(Tail(runs))

\* the headings of the two encodings, in their order
HtmlHeadings(html) ==
    LET hs == SelectSeq(HtmlLines(html), LAMBDA l : IsElement(l, "h3"))
    IN  [k \in DOMAIN hs |-> ElementText(hs[k], "h3")]
BlockHeadings(blocks) ==
    LET hs == SelectSeq(blocks, LAMBDA b : b.type = "heading_3")
    IN  [k \in DOMAIN hs |-> RunsText(hs[k].rich_text)]

(* C23: the hypertext copied and the blocks sent for the same body have the *)
(* same headings: as many, with the same texts, in the same order.          *)
C23_SameHeadings ==
    \A html \in BagToSet(clipboardItems), p \in BagToSet(pendingFetch) :
        HtmlHeadings(html) = BlockHeadings(p.bloques_notion)

\* the members of a sequence
Range(xs) == {xs[k] : k \in DOMAIN xs}

\* s without its bold markers
Unmarked(s) == Join(Split(s, "**"), "")

\* the content lines with text of the body: those below the header of the
\* tasks section (tasks = TRUE) or those below another header
RECURSIVE SectionLines(_, _, _, _)
SectionLines(lines, k, tasks, under) ==
    IF k > Len(lines) THEN <<>>
    ELSE IF StartsWith(lines[k], "### ")
    THEN SectionLines(lines, k + 1, tasks, IF Includes(lines[k], TasksTitle) THEN "tasks" ELSE "other")
    ELSE (IF Trim(lines[k]) # "" /\ under = (IF tasks THEN "tasks" ELSE "other")
          THEN <<lines[k]>> ELSE <<>>)
         \o SectionLines(lines, k + 1, tasks, under)

TaskLines(raw) == SectionLines(Split(raw, "\n"), 1, TRUE, "none")
OtherLines(raw) == SectionLines(Split(raw, "\n"), 1, FALSE, "none")

\* a line without its checkbox prefix
WithoutCheckbox(line) ==
    LET Bare(t) == IF StartsWith(t, "[ ]") THEN Trim(SubSeq(t, 4, Len(t))) ELSE t
    IN  Bare(Trim(line))

TaskBlocks(blocks) == SelectSeq(blocks, LAMBDA b : b.type = "to_do")
ParagraphBlocks(blocks) == SelectSeq(blocks, LAMBDA b : b.type = "paragraph")

\* the task blocks are these lines, in their order, none completed, and every
\* paragraph begins with the bullet, the checkbox lines of the other
\* sections among them
BlocksOf(blocks, taskLines, otherLines) ==
    /\ Len(TaskBlocks(blocks)) = Len(taskLines)
    /\ \A k \in DOMAIN TaskBlocks(blocks) :
          /\ TaskBlocks(blocks)[k].checked = FALSE
          /\ k \in DOMAIN taskLines
                => RunsText(TaskBlocks(blocks)[k].rich_text)
                       = Unmarked(WithoutCheckbox(taskLines[k]))
    /\ \A b \in Range(ParagraphBlocks(blocks)) : StartsWith(RunsText(b.rich_text), BulletMarker)
    /\ \A k \in DOMAIN otherLines :
          StartsWith(otherLines[k], "[ ] ")
              => \E b \in Range(ParagraphBlocks(blocks)) :
                     RunsText(b.rich_text) = BulletMarker \o Unmarked(Trim(otherLines[k]))

(* C24 as stated: the Task blocks are exactly the content lines with text   *)
(* below the header of "Compromisos y tareas", each not completed and       *)
(* without its checkbox; a "[ ] text" line below another header is a        *)
(* Paragraph that begins with the bullet.                                   *)
C24_TasksAreSectionLines ==
    \A p \in BagToSet(pendingFetch) :
        view # None =>
            BlocksOf(p.bloques_notion, TaskLines(view[1].rawMarkdown),
                     OtherLines(view[1].rawMarkdown))

(* C24 amended: the Task blocks are exactly those of these lines that have  *)
(* text left without their checkbox; the rest as stated.                    *)
C24_TasksAreSectionLinesWithText ==
    \A p \in BagToSet(pendingFetch) :
        view # None =>
            BlocksOf(p.bloques_notion,
                     SelectSeq(TaskLines(view[1].rawMarkdown),
                               LAMBDA l : WithoutCheckbox(l) # ""),
                     OtherLines(view[1].rawMarkdown))

\* a task with text and a checkbox without text, both in the tasks section
C24_Witness ==
    /\ status = Done
    /\ minutes = Minuta("### 5. Compromisos y tareas\n[ ] Buy milk\n[ ]")
    /\ \E p \in BagToSet(pendingFetch) :
          /\ Len(p.bloques_notion) = 2
          /\ p.bloques_notion[2] =
                [ type |-> "to_do", checked |-> FALSE,
                  rich_text |-> <<[content |-> "Buy milk", bold |-> FALSE]>> ]

\* the bold spans of the hypertext, in their order
HtmlBold(html) ==
    LET opened == Tail(Split(html, "<strong>"))
    IN  [k \in DOMAIN opened |-> Split(opened[k], "</strong>")[1]]

\* the bold runs of the blocks, in their order
RECURSIVE BlockBold(_)
BlockBold(blocks) ==
    IF blocks = <<>> THEN <<>>
    ELSE LET bold == SelectSeq(Head(blocks).rich_text, LAMBDA run : run.bold)
         IN  [k \in DOMAIN bold |-> bold[k].content] \o BlockBold(Tail(blocks))

(* C25: the hypertext copied and the blocks sent for the same body have the *)
(* same bold spans; what follows an unmatched last marker is bold in        *)
(* neither.                                                                 *)
C25_SameBoldSpans ==
    \A html \in BagToSet(clipboardItems), p \in BagToSet(pendingFetch) :
        HtmlBold(html) = BlockBold(p.bloques_notion)

\* the lines of the hypertext read in order with a list open or not: a list
\* is opened only when none is open and closed only when one is, an item
\* stands inside a list, every other element outside, and no list stays open
RECURSIVE ListsBalanced(_, _)
ListsBalanced(elements, open) ==
    IF elements = <<>> THEN ~open
    ELSE IF Head(elements) = "<ul>" THEN ~open /\ ListsBalanced(Tail(elements), TRUE)
    ELSE IF Head(elements) = "</ul>" THEN open /\ ListsBalanced(Tail(elements), FALSE)
    ELSE IF IsElement(Head(elements), "li") THEN open /\ ListsBalanced(Tail(elements), TRUE)
    ELSE ~open /\ ListsBalanced(Tail(elements), FALSE)

\* the list lines of the body, and those that begin a run of list lines: the
\* line before them is a header, a plain line, a blank line or none
ItemLines(lines) == {k \in DOMAIN lines : MarkerLen(Trim(lines[k])) > 0}
FirstItemLines(lines) == {k \in ItemLines(lines) : k - 1 \notin ItemLines(lines)}

Count(xs, x) == Len(SelectSeq(xs, LAMBDA y : y = x))

(* C26: in the hypertext copied the lists are balanced and never nested,    *)
(* items stand inside a list and headings and paragraphs outside, and a     *)
(* list is opened for each run of list lines: a header, a plain line and a  *)
(* blank line each end the run, and so close the list.                      *)
C26_ListsBalanced ==
    \A html \in BagToSet(clipboardItems) :
        LET Listed(elements, lines) ==
                /\ ListsBalanced(elements, FALSE)
                /\ Count(elements, "<ul>") = Cardinality(FirstItemLines(lines))
                /\ Len(SelectSeq(elements, LAMBDA l : IsElement(l, "li")))
                       = Cardinality(ItemLines(lines))
        IN  view # None => Listed(HtmlLines(html), Split(view[1].rawMarkdown, "\n"))

\* two list lines with a blank line between them: two lists
C26_Witness ==
    /\ status = Done
    /\ minutes = Minuta("* Acme\n\n* Acme")
    /\ BagIn("<ul>\n<li>Acme</li>\n</ul>\n<ul>\n<li>Acme</li>\n</ul>\n", clipboardItems)

(* -------------------------------- the sink ----------------------------- *)
\* the step issues one request and no other call
OneRequest ==
    /\ BagCardinality(pendingFetch') = BagCardinality(pendingFetch) + 1
    /\ UNCHANGED pendingResponseText

\* the step issues no request
NoRequest == \A p \in BagToSet(pendingFetch') : CopiesIn(p, pendingFetch') <= CopiesIn(p, pendingFetch)

\* the action is over, with this outcome
SendOver(success) == ~isSendingToNotion' /\ notionSendSuccess' = Some(success)

\* the steps of a send after its request: none issues a request; a response
\* that is ok ends it as a success, a rejected fetch as a failure; the body
\* of a response that is not ok is read, and the action ends as a failure,
\* with the status and the body in its text when the body was read
\* (always = TRUE: whether it was read or not)
SendSettles(always) ==
    /\ lastEvent'.name = "FetchReturn" =>
          /\ NoRequest
          /\ lastEvent'.outcome.kind = "rejected" => SendOver(FALSE)
          /\ (lastEvent'.outcome.kind = "response" /\ lastEvent'.outcome.ok) => SendOver(TRUE)
    /\ lastEvent'.name = "ResponseTextReturn" =>
          /\ NoRequest
          /\ SendOver(FALSE)
          /\ (always \/ lastEvent'.outcome.kind = "text") =>
                /\ error' # None
                /\ Includes(error'[1], lastEvent'.outcome.status)
                /\ Includes(error'[1], lastEvent'.outcome.text)

(* C27 as stated: every send issues exactly one request; a response that is *)
(* not ok ends it as a failure whose text has the status and the body, with *)
(* no further request; when it is over the sending flag is false and the    *)
(* success flag is the outcome.                                             *)
C27_OneRequestPerSend ==
    [][ /\ lastEvent'.name = "handleSendToNotion" => OneRequest
        /\ SendSettles(TRUE) ]_vars

(* C27 amended: a send issues one request when the body has text and none   *)
(* when it has not, and then fails at once; the text of the failure has the *)
(* status and the body when the body was read; the rest as stated.          *)
C27_AtMostOneRequestPerSend ==
    [][ /\ lastEvent'.name = "handleSendToNotion" =>
              IF view # None /\ view[1].rawMarkdown # ""
              THEN OneRequest /\ isSendingToNotion'
              ELSE NoRequest /\ SendOver(FALSE) /\ error' = Some(MsgNotionEmpty)
        /\ SendSettles(FALSE) ]_vars

\* a response with status 500 and the body "fallo" has ended a send
C27_Witness ==
    /\ lastEvent.name = "ResponseTextReturn"
    /\ lastEvent.outcome.kind = "text"
    /\ error = Some("Error del servidor: 500 - fallo")
    /\ ~isSendingToNotion /\ notionSendSuccess = Some(FALSE)
    /\ pendingFetch = EmptyBag /\ pendingResponseText = EmptyBag

(* ------------------------------ the rest ------------------------------- *)
(* C28: with the awaited calls returning, the session never stays in        *)
(* Transcribing or in Generating for ever.                                  *)
C28_NeverStaysBusy == []<>(status \notin {Transcribing, Generating})

\* the callbacks of a session that the history names
SessionCallbacks == {"RecorderOnStop", "TranscribeReturn", "GenerateReturn"}

(* C29: a callback of the earlier session that runs right after a reset,    *)
(* before any user action, leaves the status Idle and issues no call to     *)
(* the service.                                                             *)
C29_ResetHolds ==
    [][ (lastEvent.name = "ResetClick" /\ lastEvent'.name \in SessionCallbacks)
            => /\ status' = Idle
               /\ BagCardinality(pendingTranscribe') <= BagCardinality(pendingTranscribe)
               /\ BagCardinality(pendingGenerate') <= BagCardinality(pendingGenerate) ]_vars

\* the stop events a recorder still has to deliver
StopsPending(r) == Cardinality({k \in DOMAIN recorders[r].pending : recorders[r].pending[k] = "stop"})

\* the recorder of the current recording has already been stopped
AlreadyStopped == status = Recording /\ mediaRecorderRef # 0 /\ ~IsRecording(mediaRecorderRef)

\* C30: a recording is finalised once. A recorder holds a stop event only
\* after it was stopped, and never more than one; once stopped it stays
\* stopped and receives no further stop event; every new transcription call
\* uses up the stop event of one recorder; and pressing stop when the recorder
\* has already stopped changes nothing.
C30_StopsFinaliseOnce ==
    [][ /\ \A r \in DOMAIN recorders :
             /\ StopsPending(r) <= (IF recorders[r].state = "inactive" THEN 1 ELSE 0)
             /\ recorders[r].state = "inactive" =>
                    /\ recorders'[r].state = "inactive"
                    /\ Len(recorders'[r].pending) <= Len(recorders[r].pending)
        /\ \A r \in DOMAIN recorders' \ DOMAIN recorders : recorders'[r].pending = <<>>
        /\ BagCardinality(pendingTranscribe') > BagCardinality(pendingTranscribe) =>
             /\ BagCardinality(pendingTranscribe') = BagCardinality(pendingTranscribe) + 1
             /\ \E r \in DOMAIN recorders :
                    /\ recorders[r].pending # <<>>
                    /\ Head(recorders[r].pending) = "stop"
                    /\ recorders'[r].pending = <<>>
        /\ AlreadyStopped => ~ENABLED (StopClick /\ ~UNCHANGED <<session, refs, engine, async>>)
      ]_vars

\* the stop button has been pressed, the recorder is inactive with its one stop
\* event still to deliver, and the button is still there for a second press
C30_Witness ==
    /\ AlreadyStopped
    /\ recorders[mediaRecorderRef].pending = <<"dataavailable", "stop">>
    /\ timerIntervalRef \notin activeTimers

====
